---------------------------- MODULE Spec2Model ----------------------------
(***************************************************************************)
(* Connect 4 adversarial search (src/connect4.py): Minimax and Alpha-Beta  *)
(* over the three leftmost columns, with their node-collecting variants.   *)
(*                                                                         *)
(* The script's entry sequence runs minimax, alphabeta, collect_tree_nodes *)
(* and collect_alphabeta_tree_nodes in turn on one board.  Each recursive  *)
(* function is modelled as a machine over an explicit call stack: a frame  *)
(* holds the locals of one invocation, and one action is one step of the   *)
(* function body (entry and terminal test, call on the next move, update   *)
(* after the child returned, return).                                      *)
(*                                                                         *)
(* float("inf") is the integer INF, larger than every evaluation; a board  *)
(* is a function row -> column -> cell with the source's 0-based indices   *)
(* (row 0 is the top row, row ROWS-1 the bottom row).                      *)
(***************************************************************************)
EXTENDS Integers, Sequences, FiniteSets, TLC

VARIABLES
    board0,            \* the board passed to the four root calls (board0 in __main__)
    MAX_DEPTH,         \* the global depth limit (src/connect4.py:22)
    pc,                \* position of __main__ in its entry sequence
    stack,             \* call stack of the running recursive function
    ret,               \* value handed back by the call that returned last
    minimax_value,     \* __main__ locals receiving the results
    alphabeta_value,
    minimax_nodes,
    alphabeta_nodes,
    minimax_trace,     \* what minimax printed for each node it finished, in order
    alphabeta_trace    \* what alphabeta printed for each node it finished, in order

vars == <<board0, MAX_DEPTH, pc, stack, ret, minimax_value, alphabeta_value,
          minimax_nodes, alphabeta_nodes, minimax_trace, alphabeta_trace>>

ROWS == 6
COLUMNS == 7
INF == 1000
WIN_SCORE == 100

\* Bounds of the model: depth limits 0..DepthBound, and the number of column
\* contents of StackList the starting boards are built from.
DepthBound == 4
NumStacks == 5

-----------------------------------------------------------------------------
(* Board state *)

create_initial_board ==
    [r \in 0..(ROWS - 1) |-> [c \in 0..(COLUMNS - 1) |->
        CASE r = 5 /\ c = 0 -> -1
          [] r = 4 /\ c = 0 -> 1
          [] r = 3 /\ c = 0 -> 1
          [] r = 5 /\ c = 1 -> 1
          [] r = 4 /\ c = 1 -> -1
          [] r = 3 /\ c = 1 -> 1
          [] r = 5 /\ c = 2 -> 1
          [] r = 4 /\ c = 2 -> 1
          [] r = 3 /\ c = 2 -> 1
          [] r = 5 /\ c = 3 -> -1
          [] r = 5 /\ c = 5 -> -1
          [] r = 5 /\ c = 6 -> -1
          [] r = 4 /\ c = 6 -> -1
          [] OTHER -> 0]]

check_win(board, player) ==
    \/ \E r \in 0..(ROWS - 1), c \in 0..(COLUMNS - 4) :
          \A i \in 0..3 : board[r][c + i] = player
    \/ \E c \in 0..(COLUMNS - 1), r \in 0..(ROWS - 4) :
          \A i \in 0..3 : board[r + i][c] = player
    \/ \E r \in 0..(ROWS - 4), c \in 0..(COLUMNS - 4) :
          \A i \in 0..3 : board[r + i][c + i] = player
    \/ \E r \in 3..(ROWS - 1), c \in 0..(COLUMNS - 4) :
          \A i \in 0..3 : board[r - i][c + i] = player

\* get_valid_moves without the full-column filter.
get_valid_moves_unfiltered(board, depth) == <<0, 1, 2>>

get_valid_moves(board, depth) ==
    SelectSeq(<<0, 1, 2>>, LAMBDA c : board[0][c] = 0)

\* make_move scanning the rows from the top (range(ROWS) not reversed).
make_move_top(board, col, player) ==
    LET empty == {r \in 0..(ROWS - 1) : board[r][col] = 0}
    IN  IF empty = {} THEN board
        ELSE LET r == CHOOSE x \in empty : \A y \in empty : x <= y
             IN  [board EXCEPT ![r][col] = player]

make_move(board, col, player) ==
    LET empty == {r \in 0..(ROWS - 1) : board[r][col] = 0}
    IN  IF empty = {} THEN board
        ELSE LET r == CHOOSE x \in empty : \A y \in empty : x >= y
             IN  [board EXCEPT ![r][col] = player]

evaluate(board) ==
    IF check_win(board, 1) THEN WIN_SCORE
    ELSE IF check_win(board, -1) THEN -WIN_SCORE
    ELSE 0

-----------------------------------------------------------------------------
(* Starting boards: create_initial_board with the three playable columns   *)
(* restacked from StackList (bottom to top).  Stacks 1, 2, 3 in columns    *)
(* 0, 1, 2 give create_initial_board itself.                               *)

StackList ==
    << <<-1, 1, 1>>,
       <<1, -1, 1>>,
       <<1, 1, 1>>,
       <<1, -1, 1, -1, 1, -1>>,
       <<-1, 1, -1, -1, -1>>,
       <<-1, -1, 1, 1, -1, 1>> >>

Restacked(board, stacks) ==
    [r \in 0..(ROWS - 1) |-> [c \in 0..(COLUMNS - 1) |->
        IF c <= 2
        THEN LET s == stacks[c + 1]
                 k == ROWS - r
             IN  IF k <= Len(s) THEN s[k] ELSE 0
        ELSE board[r][c]]]

StartBoards ==
    {Restacked(create_initial_board, <<StackList[i], StackList[j], StackList[k]>>) :
        i, j, k \in 1..NumStacks}

-----------------------------------------------------------------------------
(* Call stack *)

\* "Root" if depth == 0 else "-".join(str(x) for x in path)
RECURSIVE Joined(_)
Joined(path) ==
    IF Len(path) = 1 THEN ToString(path[1])
    ELSE Joined(SubSeq(path, 1, Len(path) - 1)) \o "-" \o ToString(path[Len(path)])

StateOf(depth, path) == IF depth = 0 THEN "Root" ELSE Joined(path)

NoRet == [has |-> FALSE, val |-> 0, nodes |-> <<>>]
Returned(val, nodes) == [has |-> TRUE, val |-> val, nodes |-> nodes]

Frame(fn, board, depth, path, alpha, beta) ==
    [fn |-> fn, board |-> board, depth |-> depth, path |-> path,
     alpha |-> alpha, beta |-> beta,
     at |-> "entry", moves |-> <<>>, k |-> 0, value |-> 0,
     children_vals |-> <<>>, explored_moves |-> <<>>, pruned |-> FALSE,
     nodes |-> <<>>]

Top == stack[Len(stack)]
Popped == SubSeq(stack, 1, Len(stack) - 1)
WithTop(f) == [stack EXCEPT ![Len(stack)] = f]
Running(fn, at) == stack # <<>> /\ Top.fn = fn /\ Top.at = at

\* The player moving at a node: +1 in the MAX branch (even depth), -1 in the
\* MIN branch.
Mover(depth) == IF depth % 2 = 0 THEN 1 ELSE -1


-----------------------------------------------------------------------------
(* minimax(board, depth, path) *)

\* Terminal test and, for an internal node, the loop set-up.
\* MinimaxLeaf without the win test.
MinimaxLeaf_DepthOnly(depth, score_win) == depth = MAX_DEPTH

\* if depth == MAX_DEPTH or score_win != 0: the node is a leaf of minimax
MinimaxLeaf(depth, score_win) == depth = MAX_DEPTH \/ score_win # 0

MinimaxEntry ==
    /\ Running("minimax", "entry")
    /\ LET f == Top
           score_win == evaluate(f.board)
       IN  IF MinimaxLeaf(f.depth, score_win)
           THEN /\ stack' = Popped
                /\ ret' = Returned(score_win, <<>>)
                /\ minimax_trace' = Append(minimax_trace,
                        [state |-> StateOf(f.depth, f.path), value |-> score_win])
           ELSE /\ stack' = WithTop([f EXCEPT
                        !.at = "loop",
                        !.moves = get_valid_moves(f.board, f.depth),
                        !.value = IF f.depth % 2 = 0 THEN -INF ELSE INF,
                        !.children_vals = <<>>])
                /\ ret' = NoRet
                /\ UNCHANGED minimax_trace
    /\ UNCHANGED <<board0, MAX_DEPTH, pc, minimax_value, alphabeta_value,
                   minimax_nodes, alphabeta_nodes,
                   alphabeta_trace>>

\* for m in moves: child = make_move(board, m, +-1); minimax(child, depth + 1, path + [m])
MinimaxCall ==
    /\ Running("minimax", "loop")
    /\ Top.k < Len(Top.moves)
    /\ LET f == Top
           m == f.moves[f.k + 1]
           child == make_move(f.board, m, Mover(f.depth))
       IN  stack' = Append(WithTop([f EXCEPT !.at = "wait", !.k = f.k + 1]),
                           Frame("minimax", child, f.depth + 1, Append(f.path, m), 0, 0))
    /\ ret' = NoRet
    /\ UNCHANGED <<board0, MAX_DEPTH, pc, minimax_value, alphabeta_value,
                   minimax_nodes, alphabeta_nodes,
                   minimax_trace, alphabeta_trace>>

\* best_val after one more child value: running maximum at a MAX node,
\* running minimum at a MIN node.
MinimaxBest(depth, best_val, val) ==
    IF depth % 2 = 0
    THEN IF val > best_val THEN val ELSE best_val
    ELSE IF val < best_val THEN val ELSE best_val

\* val = minimax(...); children_vals.append(val); best_val update
MinimaxResume ==
    /\ Running("minimax", "wait")
    /\ ret.has
    /\ LET f == Top
           val == ret.val
       IN  stack' = WithTop([f EXCEPT
                        !.at = "loop",
                        !.children_vals = Append(f.children_vals, val),
                        !.value = MinimaxBest(f.depth, f.value, val)])
    /\ ret' = NoRet
    /\ UNCHANGED <<board0, MAX_DEPTH, pc, minimax_value, alphabeta_value,
                   minimax_nodes, alphabeta_nodes,
                   minimax_trace, alphabeta_trace>>

\* print("... children values = ..., chosen = {best_val}"); return best_val
MinimaxReturn ==
    /\ Running("minimax", "loop")
    /\ Top.k = Len(Top.moves)
    /\ stack' = Popped
    /\ ret' = Returned(Top.value, <<>>)
    /\ minimax_trace' = Append(minimax_trace,
            [state |-> StateOf(Top.depth, Top.path), value |-> Top.value])
    /\ UNCHANGED <<board0, MAX_DEPTH, pc, minimax_value, alphabeta_value,
                   minimax_nodes, alphabeta_nodes,
                   alphabeta_trace>>

-----------------------------------------------------------------------------
(* alphabeta(board, depth, path, alpha, beta) *)

\* if depth == MAX_DEPTH or score_win != 0: the node is a leaf of alphabeta
AlphabetaLeaf(depth, score_win) == depth = MAX_DEPTH \/ score_win # 0

AlphabetaEntry ==
    /\ Running("alphabeta", "entry")
    /\ LET f == Top
           score_win == evaluate(f.board)
       IN  IF AlphabetaLeaf(f.depth, score_win)
           THEN /\ stack' = Popped
                /\ ret' = Returned(score_win, <<>>)
                /\ alphabeta_trace' = Append(alphabeta_trace,
                        [state |-> StateOf(f.depth, f.path), value |-> score_win])
           ELSE /\ stack' = WithTop([f EXCEPT
                        !.at = "loop",
                        !.moves = get_valid_moves(f.board, f.depth),
                        !.value = IF f.depth % 2 = 0 THEN -INF ELSE INF])
                /\ ret' = NoRet
                /\ UNCHANGED alphabeta_trace
    /\ UNCHANGED <<board0, MAX_DEPTH, pc, minimax_value, alphabeta_value,
                   minimax_nodes, alphabeta_nodes,
                   minimax_trace>>

\* child = make_move(board, m, +-1); alphabeta(child, depth + 1, path + [m], alpha, beta)
AlphabetaCall ==
    /\ Running("alphabeta", "loop")
    /\ Top.k < Len(Top.moves)
    /\ LET f == Top
           m == f.moves[f.k + 1]
           child == make_move(f.board, m, Mover(f.depth))
       IN  stack' = Append(WithTop([f EXCEPT !.at = "wait", !.k = f.k + 1]),
                           Frame("alphabeta", child, f.depth + 1, Append(f.path, m),
                                 f.alpha, f.beta))
    /\ ret' = NoRet
    /\ UNCHANGED <<board0, MAX_DEPTH, pc, minimax_value, alphabeta_value,
                   minimax_nodes, alphabeta_nodes,
                   minimax_trace, alphabeta_trace>>

\* AlphabetaStep with the MIN branch comparing as the MAX branch does.
AlphabetaStep_MinTakesMax(depth, value, alpha, beta, val) ==
    IF depth % 2 = 0
    THEN LET v == IF val > value THEN val ELSE value
             a == IF v > alpha THEN v ELSE alpha
         IN  [value |-> v, alpha |-> a, beta |-> beta, cut |-> a >= beta]
    ELSE LET v == IF val > value THEN val ELSE value
             b == IF v < beta THEN v ELSE beta
         IN  [value |-> v, alpha |-> alpha, beta |-> b, cut |-> alpha >= b]

\* AlphabetaStep without the break.
AlphabetaStep_NoBreak(depth, value, alpha, beta, val) ==
    IF depth % 2 = 0
    THEN LET v == IF val > value THEN val ELSE value
             a == IF v > alpha THEN v ELSE alpha
         IN  [value |-> v, alpha |-> a, beta |-> beta, cut |-> FALSE]
    ELSE LET v == IF val < value THEN val ELSE value
             b == IF v < beta THEN v ELSE beta
         IN  [value |-> v, alpha |-> alpha, beta |-> b, cut |-> FALSE]

\* The loop body after the recursive call returned val: the running value,
\* the window, and whether the loop breaks (alpha >= beta).
AlphabetaStep(depth, value, alpha, beta, val) ==
    IF depth % 2 = 0
    THEN LET v == IF val > value THEN val ELSE value
             a == IF v > alpha THEN v ELSE alpha
         IN  [value |-> v, alpha |-> a, beta |-> beta, cut |-> a >= beta]
    ELSE LET v == IF val < value THEN val ELSE value
             b == IF v < beta THEN v ELSE beta
         IN  [value |-> v, alpha |-> alpha, beta |-> b, cut |-> alpha >= b]

AlphabetaResume ==
    /\ Running("alphabeta", "wait")
    /\ ret.has
    /\ LET f == Top
           s == AlphabetaStep(f.depth, f.value, f.alpha, f.beta, ret.val)
       IN  stack' = WithTop([f EXCEPT
                        !.at = IF s.cut THEN "exit" ELSE "loop",
                        !.value = s.value,
                        !.alpha = s.alpha,
                        !.beta = s.beta])
    /\ ret' = NoRet
    /\ UNCHANGED <<board0, MAX_DEPTH, pc, minimax_value, alphabeta_value,
                   minimax_nodes, alphabeta_nodes,
                   minimax_trace, alphabeta_trace>>

\* print("... returns {value}"); return value, after the last move or after
\* the break
AlphabetaReturn ==
    /\ \/ Running("alphabeta", "exit")
       \/ Running("alphabeta", "loop") /\ Top.k = Len(Top.moves)
    /\ stack' = Popped
    /\ ret' = Returned(Top.value, <<>>)
    /\ alphabeta_trace' = Append(alphabeta_trace,
            [state |-> StateOf(Top.depth, Top.path), value |-> Top.value])
    /\ UNCHANGED <<board0, MAX_DEPTH, pc, minimax_value, alphabeta_value,
                   minimax_nodes, alphabeta_nodes,
                   minimax_trace>>

-----------------------------------------------------------------------------
(* collect_tree_nodes(board, depth, path) *)

\* CollectLeaf with the depth test off by one.
CollectLeaf_OneDeeper(depth, score_win) == depth = MAX_DEPTH + 1 \/ score_win # 0

\* if depth == MAX_DEPTH or score_win != 0: the node is a leaf of collect_tree_nodes
CollectLeaf(depth, score_win) == depth = MAX_DEPTH \/ score_win # 0

CollectEntry ==
    /\ Running("collect_tree_nodes", "entry")
    /\ LET f == Top
           score_win == evaluate(f.board)
       IN  IF CollectLeaf(f.depth, score_win)
           THEN /\ stack' = Popped
                /\ ret' = Returned(score_win,
                        <<[path |-> f.path, state |-> StateOf(f.depth, f.path),
                           value |-> score_win, type |-> "terminal",
                           depth |-> f.depth]>>)
           ELSE /\ stack' = WithTop([f EXCEPT
                        !.at = "loop",
                        !.moves = get_valid_moves(f.board, f.depth),
                        !.value = IF f.depth % 2 = 0 THEN -INF ELSE INF,
                        !.children_vals = <<>>])
                /\ ret' = NoRet
    /\ UNCHANGED <<board0, MAX_DEPTH, pc, minimax_value, alphabeta_value,
                   minimax_nodes, alphabeta_nodes,
                   minimax_trace, alphabeta_trace>>

CollectCall ==
    /\ Running("collect_tree_nodes", "loop")
    /\ Top.k < Len(Top.moves)
    /\ LET f == Top
           m == f.moves[f.k + 1]
           child == make_move(f.board, m, Mover(f.depth))
       IN  stack' = Append(WithTop([f EXCEPT !.at = "wait", !.k = f.k + 1]),
                           Frame("collect_tree_nodes", child, f.depth + 1,
                                 Append(f.path, m), 0, 0))
    /\ ret' = NoRet
    /\ UNCHANGED <<board0, MAX_DEPTH, pc, minimax_value, alphabeta_value,
                   minimax_nodes, alphabeta_nodes,
                   minimax_trace, alphabeta_trace>>

\* best_val after one more child value in collect_tree_nodes
CollectBest(depth, best_val, val) ==
    IF depth % 2 = 0
    THEN IF val > best_val THEN val ELSE best_val
    ELSE IF val < best_val THEN val ELSE best_val

\* nodes.extend(child_nodes); children_vals.append(val); best_val update
CollectResume ==
    /\ Running("collect_tree_nodes", "wait")
    /\ ret.has
    /\ LET f == Top
       IN  stack' = WithTop([f EXCEPT
                        !.at = "loop",
                        !.nodes = f.nodes \o ret.nodes,
                        !.children_vals = Append(f.children_vals, ret.val),
                        !.value = CollectBest(f.depth, f.value, ret.val)])
    /\ ret' = NoRet
    /\ UNCHANGED <<board0, MAX_DEPTH, pc, minimax_value, alphabeta_value,
                   minimax_nodes, alphabeta_nodes,
                   minimax_trace, alphabeta_trace>>

\* nodes.append({... 'type': 'max' | 'min' ...}); return nodes, best_val
CollectReturn ==
    /\ Running("collect_tree_nodes", "loop")
    /\ Top.k = Len(Top.moves)
    /\ LET f == Top
       IN  ret' = Returned(f.value, Append(f.nodes,
                    [path |-> f.path, state |-> StateOf(f.depth, f.path),
                     value |-> f.value,
                     type |-> IF f.depth % 2 = 0 THEN "max" ELSE "min",
                     depth |-> f.depth, children_values |-> f.children_vals,
                     moves |-> f.moves]))
    /\ stack' = Popped
    /\ UNCHANGED <<board0, MAX_DEPTH, pc, minimax_value, alphabeta_value,
                   minimax_nodes, alphabeta_nodes,
                   minimax_trace, alphabeta_trace>>

-----------------------------------------------------------------------------
(* collect_alphabeta_tree_nodes(board, depth, path, alpha, beta) *)

\* CollectAlphabetaLeaf with the depth test off by one.
CollectAlphabetaLeaf_OneDeeper(depth, score_win) ==
    depth = MAX_DEPTH + 1 \/ score_win # 0

\* if depth == MAX_DEPTH or score_win != 0: the node is a leaf of collect_alphabeta_tree_nodes
CollectAlphabetaLeaf(depth, score_win) == depth = MAX_DEPTH \/ score_win # 0

CollectAlphabetaEntry ==
    /\ Running("collect_alphabeta_tree_nodes", "entry")
    /\ LET f == Top
           score_win == evaluate(f.board)
       IN  IF CollectAlphabetaLeaf(f.depth, score_win)
           THEN /\ stack' = Popped
                /\ ret' = Returned(score_win,
                        <<[path |-> f.path, state |-> StateOf(f.depth, f.path),
                           value |-> score_win, type |-> "terminal",
                           depth |-> f.depth, alpha |-> f.alpha,
                           beta |-> f.beta]>>)
           ELSE /\ stack' = WithTop([f EXCEPT
                        !.at = "loop",
                        !.moves = get_valid_moves(f.board, f.depth),
                        !.value = IF f.depth % 2 = 0 THEN -INF ELSE INF,
                        !.children_vals = <<>>,
                        !.pruned = FALSE,
                        !.explored_moves = <<>>])
                /\ ret' = NoRet
    /\ UNCHANGED <<board0, MAX_DEPTH, pc, minimax_value, alphabeta_value,
                   minimax_nodes, alphabeta_nodes,
                   minimax_trace, alphabeta_trace>>

CollectAlphabetaCall ==
    /\ Running("collect_alphabeta_tree_nodes", "loop")
    /\ Top.k < Len(Top.moves)
    /\ LET f == Top
           m == f.moves[f.k + 1]
           child == make_move(f.board, m, Mover(f.depth))
       IN  stack' = Append(WithTop([f EXCEPT !.at = "wait", !.k = f.k + 1]),
                           Frame("collect_alphabeta_tree_nodes", child, f.depth + 1,
                                 Append(f.path, m), f.alpha, f.beta))
    /\ ret' = NoRet
    /\ UNCHANGED <<board0, MAX_DEPTH, pc, minimax_value, alphabeta_value,
                   minimax_nodes, alphabeta_nodes,
                   minimax_trace, alphabeta_trace>>

\* CollectAlphabetaStep without the break.
CollectAlphabetaStep_NoBreak(depth, value, alpha, beta, val) ==
    IF depth % 2 = 0
    THEN LET v == IF val > value THEN val ELSE value
             a == IF v > alpha THEN v ELSE alpha
         IN  [value |-> v, alpha |-> a, beta |-> beta, cut |-> FALSE]
    ELSE LET v == IF val < value THEN val ELSE value
             b == IF v < beta THEN v ELSE beta
         IN  [value |-> v, alpha |-> alpha, beta |-> b, cut |-> FALSE]

\* The loop body of collect_alphabeta_tree_nodes after the recursive call
\* returned val: the running value, the window, and whether the loop breaks.
CollectAlphabetaStep(depth, value, alpha, beta, val) ==
    IF depth % 2 = 0
    THEN LET v == IF val > value THEN val ELSE value
             a == IF v > alpha THEN v ELSE alpha
         IN  [value |-> v, alpha |-> a, beta |-> beta, cut |-> a >= beta]
    ELSE LET v == IF val < value THEN val ELSE value
             b == IF v < beta THEN v ELSE beta
         IN  [value |-> v, alpha |-> alpha, beta |-> b, cut |-> alpha >= b]

CollectAlphabetaResume ==
    /\ Running("collect_alphabeta_tree_nodes", "wait")
    /\ ret.has
    /\ LET f == Top
           s == CollectAlphabetaStep(f.depth, f.value, f.alpha, f.beta, ret.val)
       IN  stack' = WithTop([f EXCEPT
                        !.at = IF s.cut THEN "exit" ELSE "loop",
                        !.nodes = f.nodes \o ret.nodes,
                        !.children_vals = Append(f.children_vals, ret.val),
                        !.explored_moves = Append(f.explored_moves, f.moves[f.k]),
                        !.value = s.value,
                        !.alpha = s.alpha,
                        !.beta = s.beta,
                        !.pruned = IF s.cut THEN TRUE ELSE f.pruned])
    /\ ret' = NoRet
    /\ UNCHANGED <<board0, MAX_DEPTH, pc, minimax_value, alphabeta_value,
                   minimax_nodes, alphabeta_nodes,
                   minimax_trace, alphabeta_trace>>

CollectAlphabetaReturn ==
    /\ \/ Running("collect_alphabeta_tree_nodes", "exit")
       \/ Running("collect_alphabeta_tree_nodes", "loop") /\ Top.k = Len(Top.moves)
    /\ LET f == Top
       IN  ret' = Returned(f.value, Append(f.nodes,
                    [path |-> f.path, state |-> StateOf(f.depth, f.path),
                     value |-> f.value,
                     type |-> IF f.depth % 2 = 0 THEN "max" ELSE "min",
                     depth |-> f.depth, children_values |-> f.children_vals,
                     moves |-> f.moves, explored_moves |-> f.explored_moves,
                     pruned |-> f.pruned, alpha |-> f.alpha, beta |-> f.beta]))
    /\ stack' = Popped
    /\ UNCHANGED <<board0, MAX_DEPTH, pc, minimax_value, alphabeta_value,
                   minimax_nodes, alphabeta_nodes,
                   minimax_trace, alphabeta_trace>>

-----------------------------------------------------------------------------
(* __main__ *)

Init ==
    /\ board0 \in StartBoards
    /\ MAX_DEPTH \in 0..DepthBound
    /\ pc = "start"
    /\ stack = <<>>
    /\ ret = NoRet
    /\ minimax_value = 0
    /\ alphabeta_value = 0
    /\ minimax_nodes = <<>>
    /\ alphabeta_nodes = <<>>
    /\ minimax_trace = <<>>
    /\ alphabeta_trace = <<>>

\* minimax_value = minimax(board0, 0, [])
MainMinimax ==
    /\ pc = "start"
    /\ pc' = "minimax"
    /\ stack' = <<Frame("minimax", board0, 0, <<>>, 0, 0)>>
    /\ ret' = NoRet
    /\ UNCHANGED <<board0, MAX_DEPTH, minimax_value, alphabeta_value,
                   minimax_nodes, alphabeta_nodes,
                   minimax_trace, alphabeta_trace>>

\* alphabeta_value = alphabeta(board0, 0, [], float("-inf"), float("inf"))
MainAlphabeta ==
    /\ pc = "minimax" /\ stack = <<>> /\ ret.has
    /\ minimax_value' = ret.val
    /\ pc' = "alphabeta"
    /\ stack' = <<Frame("alphabeta", board0, 0, <<>>, -INF, INF)>>
    /\ ret' = NoRet
    /\ UNCHANGED <<board0, MAX_DEPTH, alphabeta_value, minimax_nodes, alphabeta_nodes,
                   minimax_trace, alphabeta_trace>>

\* minimax_nodes, _ = collect_tree_nodes(board0, 0, [])
MainCollectTree ==
    /\ pc = "alphabeta" /\ stack = <<>> /\ ret.has
    /\ alphabeta_value' = ret.val
    /\ pc' = "collect_tree_nodes"
    /\ stack' = <<Frame("collect_tree_nodes", board0, 0, <<>>, 0, 0)>>
    /\ ret' = NoRet
    /\ UNCHANGED <<board0, MAX_DEPTH, minimax_value, minimax_nodes, alphabeta_nodes,
                   minimax_trace, alphabeta_trace>>

\* alphabeta_nodes, _ = collect_alphabeta_tree_nodes(board0, 0, [], -inf, inf)
MainCollectAlphabeta ==
    /\ pc = "collect_tree_nodes" /\ stack = <<>> /\ ret.has
    /\ minimax_nodes' = ret.nodes
    /\ pc' = "collect_alphabeta_tree_nodes"
    /\ stack' = <<Frame("collect_alphabeta_tree_nodes", board0, 0, <<>>, -INF, INF)>>
    /\ ret' = NoRet
    /\ UNCHANGED <<board0, MAX_DEPTH, minimax_value, alphabeta_value, alphabeta_nodes,
                   minimax_trace, alphabeta_trace>>

\* The final comparison: both node lists and both values are available.
MainCompare ==
    /\ pc = "collect_alphabeta_tree_nodes" /\ stack = <<>> /\ ret.has
    /\ alphabeta_nodes' = ret.nodes
    /\ pc' = "done"
    /\ ret' = NoRet
    /\ UNCHANGED <<board0, MAX_DEPTH, stack, minimax_value, alphabeta_value,
                   minimax_nodes,
                   minimax_trace, alphabeta_trace>>

\* len([n for n in nodes if n['type'] == 'terminal'])
TerminalCount(nodes) ==
    Cardinality({i \in 1..Len(nodes) : nodes[i].type = "terminal"})

Next ==
    \/ MainMinimax
    \/ MinimaxEntry
    \/ MinimaxCall
    \/ MinimaxResume
    \/ MinimaxReturn
    \/ MainAlphabeta
    \/ AlphabetaEntry
    \/ AlphabetaCall
    \/ AlphabetaResume
    \/ AlphabetaReturn
    \/ MainCollectTree
    \/ CollectEntry
    \/ CollectCall
    \/ CollectResume
    \/ CollectReturn
    \/ MainCollectAlphabeta
    \/ CollectAlphabetaEntry
    \/ CollectAlphabetaCall
    \/ CollectAlphabetaResume
    \/ CollectAlphabetaReturn
    \/ MainCompare

Spec == Init /\ [][Next]_vars

\* Every step the interpreter can take is eventually taken: the script runs
\* to completion unless a function loops.
FairSpec == Spec /\ WF_vars(Next)

-----------------------------------------------------------------------------
(* Properties *)

Done == pc = "done"
Scores == {-WIN_SCORE, 0, WIN_SCORE}
IsAlphabeta(f) == f.fn \in {"alphabeta", "collect_alphabeta_tree_nodes"}
Internal(n) == n.type \in {"max", "min"}

IsPrefix(p, q) == Len(p) <= Len(q) /\ SubSeq(q, 1, Len(p)) = p

\* The board of the node reached from board0 by the moves of path.
RECURSIVE BoardAt(_)
BoardAt(path) ==
    IF path = <<>> THEN board0
    ELSE make_move(BoardAt(SubSeq(path, 1, Len(path) - 1)), path[Len(path)],
                   Mover(Len(path) - 1))

\* An Alpha-Beta record whose loop broke while legal moves were still unexplored.
CutShort(n) == Internal(n) /\ n.pruned /\ Len(n.explored_moves) < Len(n.moves)

\* C1: the value alphabeta returns at the root with window (-inf, +inf) equals
\* the value minimax returns at the root on the same board and depth limit.
C1_Equivalence ==
    pc \in {"collect_tree_nodes", "collect_alphabeta_tree_nodes", "done"}
        => alphabeta_value = minimax_value

C1_Witness ==
    /\ Done
    /\ MAX_DEPTH >= 3
    /\ alphabeta_value = minimax_value
    /\ \E i \in 1..Len(alphabeta_nodes) : CutShort(alphabeta_nodes[i])

\* C2: the Alpha-Beta traversal records at most as many terminal nodes as the
\* Minimax traversal of the same board.
C2_MonotonicPruning ==
    Done => TerminalCount(alphabeta_nodes) <= TerminalCount(minimax_nodes)

C2_Witness ==
    /\ Done
    /\ TerminalCount(alphabeta_nodes) < TerminalCount(minimax_nodes)
    /\ TerminalCount(alphabeta_nodes) > 1

\* Every internal node of both node lists had a legal move.
NoDeadEnd ==
    /\ \A i \in 1..Len(minimax_nodes) :
          Internal(minimax_nodes[i]) => minimax_nodes[i].moves # <<>>
    /\ \A i \in 1..Len(alphabeta_nodes) :
          Internal(alphabeta_nodes[i]) => alphabeta_nodes[i].moves # <<>>

\* C3 as stated: if any internal node of the Alpha-Beta run is recorded with
\* pruned = true, Alpha-Beta visits strictly fewer terminal nodes than Minimax.
\* Stated on the runs in which every internal node has a legal move, so that a
\* violation does not rest on the values of nodes without moves.
C3_PrunedMeansFewer ==
    (Done /\ NoDeadEnd) =>
        ((\E i \in 1..Len(alphabeta_nodes) :
             Internal(alphabeta_nodes[i]) /\ alphabeta_nodes[i].pruned)
         => TerminalCount(alphabeta_nodes) < TerminalCount(minimax_nodes))

\* C3 amended: if an internal node of the Alpha-Beta run reaches alpha >= beta
\* while a legal move is still unexplored, and Minimax visits a terminal node
\* below that move, Alpha-Beta visits strictly fewer terminal nodes than Minimax.
C3_CutShortMeansFewer ==
    Done =>
        \A i \in 1..Len(alphabeta_nodes) :
            LET n == alphabeta_nodes[i]
            IN  CutShort(n) =>
                  \A j \in (Len(n.explored_moves) + 1)..Len(n.moves) :
                     (\E t \in 1..Len(minimax_nodes) :
                         /\ minimax_nodes[t].type = "terminal"
                         /\ IsPrefix(Append(n.path, n.moves[j]), minimax_nodes[t].path))
                     => TerminalCount(alphabeta_nodes) < TerminalCount(minimax_nodes)

C3_Witness ==
    /\ Done
    /\ \E i \in 1..Len(alphabeta_nodes) :
          LET n == alphabeta_nodes[i]
          IN  /\ CutShort(n)
              /\ \E t \in 1..Len(minimax_nodes) :
                    /\ minimax_nodes[t].type = "terminal"
                    /\ IsPrefix(Append(n.path, n.moves[Len(n.moves)]),
                                minimax_nodes[t].path)
    /\ TerminalCount(alphabeta_nodes) < TerminalCount(minimax_nodes)

\* C4: every value returned by a node of either traversal, and every value of a
\* node record, is one of -100, 0, 100.
C4_ValueRange ==
    /\ ret.has => ret.val \in Scores
    /\ \A i \in 1..Len(minimax_nodes) : minimax_nodes[i].value \in Scores
    /\ \A i \in 1..Len(alphabeta_nodes) : alphabeta_nodes[i].value \in Scores

\* value is the greatest (least) element of the list vals
IsMaxOf(value, vals) ==
    /\ \E i \in 1..Len(vals) : vals[i] = value
    /\ \A i \in 1..Len(vals) : vals[i] <= value
IsMinOf(value, vals) ==
    /\ \E i \in 1..Len(vals) : vals[i] = value
    /\ \A i \in 1..Len(vals) : vals[i] >= value

Aggregated(n) ==
    /\ n.type = "max" => IsMaxOf(n.value, n.children_values)
    /\ n.type = "min" => IsMinOf(n.value, n.children_values)
    /\ n.type = "terminal" => n.value = evaluate(BoardAt(n.path))

\* C5: in both node lists a 'max' record's value is the maximum of its
\* children_values, a 'min' record's value the minimum, and a 'terminal'
\* record's value is evaluate of the node's board.
C5_Aggregation ==
    /\ \A i \in 1..Len(minimax_nodes) : Aggregated(minimax_nodes[i])
    /\ \A i \in 1..Len(alphabeta_nodes) : Aggregated(alphabeta_nodes[i])

\* C6: in an Alpha-Beta run alpha <= beta holds at the entry of every call and
\* after every child update except where the node detects alpha >= beta; a node
\* that has alpha >= beta makes no further recursive call: it is the running
\* call and is about to return.
C6_WindowValidity ==
    \A i \in 1..Len(stack) :
        LET f == stack[i]
        IN  IsAlphabeta(f) =>
              /\ f.at \in {"entry", "loop", "wait"} => f.alpha <= f.beta
              /\ (f.at # "entry" /\ f.alpha >= f.beta)
                    => (f.at = "exit" /\ i = Len(stack))

C6_Witness ==
    /\ Running("alphabeta", "exit")
    /\ Top.alpha >= Top.beta
    /\ Top.k < Len(Top.moves)
    /\ Top.depth >= 1

\* The terminal rule read off a node list.
TerminalRule(nodes) ==
    \A i \in 1..Len(nodes) :
        /\ nodes[i].type = "terminal"
              <=> (nodes[i].depth = MAX_DEPTH \/ evaluate(BoardAt(nodes[i].path)) # 0)
        /\ nodes[i].type = "terminal" =>
              \A j \in 1..Len(nodes) :
                  IsPrefix(nodes[i].path, nodes[j].path) => j = i

\* C7: a node is terminal exactly when its depth is the depth limit or evaluate
\* of its board is non-zero; no visited node lies below a terminal node; with
\* depth limit 0 and no four-in-a-row both algorithms return 0 and the root is
\* the only node.
C7_TerminalRule ==
    /\ (stack # <<>> /\ Top.at # "entry")
          => (Top.depth # MAX_DEPTH /\ evaluate(Top.board) = 0)
    /\ Len(stack) >= 2
          => LET parent == stack[Len(stack) - 1]
             IN  parent.depth # MAX_DEPTH /\ evaluate(parent.board) = 0
    /\ Done => (TerminalRule(minimax_nodes) /\ TerminalRule(alphabeta_nodes))
    /\ (Done /\ MAX_DEPTH = 0 /\ evaluate(board0) = 0) =>
          /\ minimax_value = 0
          /\ alphabeta_value = 0
          /\ Len(minimax_nodes) = 1 /\ minimax_nodes[1].type = "terminal"
          /\ Len(alphabeta_nodes) = 1 /\ alphabeta_nodes[1].type = "terminal"
          /\ minimax_nodes[1].path = <<>> /\ alphabeta_nodes[1].path = <<>>

C7_Witness ==
    /\ Done
    /\ MAX_DEPTH >= 3
    /\ \E i \in 1..Len(minimax_nodes) :
          /\ minimax_nodes[i].type = "terminal"
          /\ minimax_nodes[i].depth = 1
          /\ minimax_nodes[i].value = WIN_SCORE
    /\ \E i \in 1..Len(alphabeta_nodes) :
          /\ alphabeta_nodes[i].type = "terminal"
          /\ alphabeta_nodes[i].depth = 2
          /\ alphabeta_nodes[i].value = -WIN_SCORE

\* The bounds on the Minimax traversal.
BoundedBranching ==
    /\ TerminalCount(minimax_nodes) <= 3 ^ MAX_DEPTH
    /\ \A i \in 1..Len(minimax_nodes) : minimax_nodes[i].depth <= MAX_DEPTH
    /\ \A i \in 1..Len(stack) :
          stack[i].fn \in {"minimax", "collect_tree_nodes"}
              => (stack[i].depth <= MAX_DEPTH /\ Len(stack) <= MAX_DEPTH + 1)

\* C8: with moves {0, 1, 2} the Minimax traversal records at most 3^MAX_DEPTH
\* terminal nodes, no node it visits is deeper than MAX_DEPTH (so at most
\* MAX_DEPTH + 1 calls are ever active), and the script runs to completion.
C8_BoundedBranching == []BoundedBranching /\ <>Done

C8_Witness ==
    /\ Done
    /\ MAX_DEPTH = 3
    /\ TerminalCount(minimax_nodes) = 27

\* Non-empty cells of every column are contiguous from the bottom row upward.
Gravity(board) ==
    \A c \in 0..(COLUMNS - 1), r \in 0..(ROWS - 2) :
        board[r][c] # 0 => board[r + 1][c] # 0

\* C9: every board of a traversal satisfies the gravity invariant: in each
\* column no non-empty cell lies above an empty cell.
C9_Gravity ==
    /\ Gravity(board0)
    /\ \A i \in 1..Len(stack) : Gravity(stack[i].board)

C9_Witness ==
    /\ board0 = create_initial_board
    /\ Len(stack) = 4
    /\ Top.path = <<0, 0, 1>>

\* child was made from parent by one legal drop.
LegalStep(parent, child) ==
    LET col == child.path[Len(child.path)]
        changed == {rc \in (0..(ROWS - 1)) \X (0..(COLUMNS - 1)) :
                        child.board[rc[1]][rc[2]] # parent.board[rc[1]][rc[2]]}
    IN  /\ col \in {0, 1, 2}
        /\ parent.board[0][col] = 0
        /\ Cardinality(changed) = 1
        /\ \A rc \in changed :
              /\ rc[2] = col
              /\ parent.board[rc[1]][col] = 0
              /\ \A r \in (rc[1] + 1)..(ROWS - 1) : parent.board[r][col] # 0
              /\ child.board[rc[1]][col] = Mover(parent.depth)

\* C10: every move applied by a search is legal: the child of a node was made
\* by a move in a column of {0, 1, 2} whose top cell is empty in the parent, and
\* differs from the parent in exactly one cell, the lowest empty cell of that
\* column, which holds the mover's token.
C10_LegalMoves ==
    \A i \in 2..Len(stack) : LegalStep(stack[i - 1], stack[i])

C10_Witness ==
    /\ Len(stack) >= 3
    /\ \E c \in {0, 1, 2} : stack[Len(stack) - 1].board[0][c] # 0
    /\ Len(stack[Len(stack) - 1].moves) = 2

\* The identifier and value of every record of a node list, in list order.
Finished(nodes) ==
    [i \in 1..Len(nodes) |-> [state |-> nodes[i].state, value |-> nodes[i].value]]

\* No two records of a node list are records of the same node.
OneRecordPerNode(nodes) ==
    \A i, j \in 1..Len(nodes) : nodes[i].path = nodes[j].path => i = j

\* C11: collect_tree_nodes returns the scalar minimax returns and
\* collect_alphabeta_tree_nodes the scalar alphabeta returns from the same
\* window; each visits exactly the nodes its plain counterpart visits, in the
\* same order and with the same values, and returns one record per visited node.
C11_CollectingFaithful ==
    /\ (pc = "collect_tree_nodes" /\ stack = <<>> /\ ret.has)
          => ret.val = minimax_value
    /\ (pc = "collect_alphabeta_tree_nodes" /\ stack = <<>> /\ ret.has)
          => ret.val = alphabeta_value
    /\ Done =>
          /\ Finished(minimax_nodes) = minimax_trace
          /\ Finished(alphabeta_nodes) = alphabeta_trace
          /\ OneRecordPerNode(minimax_nodes)
          /\ OneRecordPerNode(alphabeta_nodes)

C11_Witness ==
    /\ Done
    /\ MAX_DEPTH >= 3
    /\ Len(alphabeta_trace) > 4
    /\ Len(alphabeta_trace) < Len(minimax_trace)
    /\ Finished(alphabeta_nodes) = alphabeta_trace
    /\ Finished(minimax_nodes) = minimax_trace

=============================================================================
